---- MODULE Spec2Model ----
(***************************************************************************)
(* Model of LibraryService (server/src/domain/library): the refresh pass   *)
(* over an IMPORT library, the ingest job handleRefreshAsset and the       *)
(* offline job handleOfflineAsset, run by a pool of job workers against a  *)
(* shared asset catalog, a shared job queue and a changing filesystem.     *)
(* An action is the code that runs from one await of the source to the     *)
(* next, so that the handlers interleave where the source lets them.       *)
(***************************************************************************)
EXTENDS Integers, Sequences, FiniteSets, Bags, TLC

\* ------------------------------------------------------------- bounds
MaxMtime == 2        \* modification times a file goes through: 1..MaxMtime
MaxPasses == 2       \* calls of refresh in one behaviour; they may overlap
MaxSets == 1         \* calls of setImportPaths in one behaviour; they may overlap
MaxSeeds == 2        \* assets in the catalog of a library refreshed earlier

Workers == {1, 2}    \* the job workers consuming the queue

\* ------------------------------------------------------------- values
Null == [null |-> TRUE]

IMPORT == "IMPORT"
UPLOAD == "UPLOAD"
REFRESH_LIBRARY_FILE == "REFRESH_LIBRARY_FILE"
OFFLINE_LIBRARY_FILE == "OFFLINE_LIBRARY_FILE"
METADATA_EXTRACTION == "METADATA_EXTRACTION"
VIDEO_CONVERSION == "VIDEO_CONVERSION"

\* A path is the sequence of its segments below the root "/":
\* <<"m", ".", "a.jpg">> is "/m/./a.jpg".
\* The media files there can be on disk, in the order a directory walk meets them.
FileOrder == << <<"m", "p", "a.jpg">>, <<"m", "v", "q", "b.mp4">> >>
FilePaths == {FileOrder[k] : k \in 1..Len(FileOrder)}

\* The values the operator gives the library's importPaths: the directory of the
\* videos, that directory and a directory nested in it, or the directory above,
\* which holds every media file.
ImportPathChoices == { << <<"m", "v", ".">> >> }
NestedChoices == { << <<"m", "v">>, <<"m", "v", ".", "q">> >> }
WideChoices == { << <<"m", ".">> >> }

\* ------------------------------------------------------------- pure helpers
RECURSIVE NormalizeFrom(_, _)
NormalizeFrom(done, rest) ==
  IF rest = <<>> THEN done
  ELSE LET s == Head(rest) IN
       IF s = "" \/ s = "." THEN NormalizeFrom(done, Tail(rest))
       ELSE IF s = ".."
            THEN NormalizeFrom(IF done = <<>> THEN done
                               ELSE SubSeq(done, 1, Len(done) - 1), Tail(rest))
            ELSE NormalizeFrom(Append(done, s), Tail(rest))

\* path.normalize on an absolute POSIX path: "" and "." segments dropped,
\* ".." removes the segment before it (and is dropped at the root).
Normalize(p) == NormalizeFrom(<<>>, p)

Range(s) == {s[i] : i \in 1..Len(s)}
Includes(s, x) == x \in Range(s)

\* basename(path)
Basename(p) == p[Len(p)]

\* mime.lookup(path): the MIME type of the path's extension, falsy ("") when unknown.
NoMime == ""

MimeLookup(p) ==
  CASE Basename(p) = "a.jpg" -> "image/jpeg"
    [] Basename(p) = "b.mp4" -> "video/mp4"
    [] Basename(p) = "d.txt" -> "text/plain"
    [] OTHER -> NoMime

\* mimeTypes.isAsset(path): the supported-asset allow-list.
IsAsset(p) == MimeLookup(p) \in {"image/jpeg", "video/mp4"}

\* mimeType.split('/')[0].toUpperCase(): the MIME type's class, in upper case,
\* whatever the class is.
AssetTypeOf(mimeType) ==
  CASE mimeType = "image/jpeg" -> "IMAGE"
    [] mimeType = "video/mp4" -> "VIDEO"
    [] mimeType = "text/plain" -> "TEXT"
    [] mimeType = "audio/mpeg" -> "AUDIO"
    [] mimeType = "application/octet-stream" -> "APPLICATION"

\* A Date is an object: its identity (the allocation that made it) and its time.
DateObj(site, owner, t) == [site |-> site, owner |-> owner, time |-> t]

\* a !== b on two objects compares their identities, not their times.
StrictNotEqual(a, b) == <<a.site, a.owner>> # <<b.site, b.owner>>

\* ------------------------------------------------------------- state
VARIABLES
  libType,      \* the library's type (LibraryEntity.type)
  importPaths,  \* the library's importPaths, a sequence of paths
  catalog,      \* the Asset table: a set of asset records
  nextId,       \* the next asset id the catalog hands out
  queue,        \* the job queue: a bag of REFRESH_/OFFLINE_LIBRARY_FILE jobs
  downstream,   \* the METADATA_EXTRACTION / VIDEO_CONVERSION jobs queued so far
  rf,           \* each call of refresh: its position and its locals
  passes,       \* calls of refresh made so far
  wk,           \* each worker's position in its job handler, and the handler's locals
  quiet,        \* Null while files come, go and change between any two reads;
                \* else the filesystem, holding still, and the catalog at the start
  sip           \* each call of setImportPaths: its position, argument and outcome

vars ==
  <<libType, importPaths, catalog, nextId, queue, downstream, rf, passes, wk,
    quiet, sip>>

IdleWorker ==
  [pc |-> "idle", job |-> Null, existingAssetEntity |-> Null, stats |-> Null,
   doImport |-> FALSE, checksum |-> Null, addedAsset |-> Null,
   result |-> "none", writes |-> 0, enq |-> <<>>]

\* The RefreshLibraryDto of a call of refresh, the defaults of lines 286-287 applied.
Dtos == [forceRefresh : BOOLEAN, emptyTrash : BOOLEAN]

\* The calls of refresh a behaviour makes, in the order they are made.
Passes == 1..MaxPasses

\* The calls of setImportPaths a behaviour makes, in the order they are made.
Sets == 1..MaxSets

IdleSet == [pc |-> "idle", paths |-> <<>>, result |-> "none"]

IdleRefresh ==
  [pc |-> "idle", dto |-> Null, library |-> Null, crawledAssetPaths |-> <<>>,
   assetsInLibrary |-> <<>>, offlineAssets |-> <<>>, i |-> 0,
   emitted |-> <<>>, result |-> "none"]

\* The filesystem is the environment: it is not part of the state, and every read
\* of it (a crawl, a stat, a hash) sees any of the states it can be in. A state of
\* the filesystem gives every file its mtime, 0 when the file is not accessible.
FsStates == [FilePaths -> 0..MaxMtime]

\* What a read of the filesystem can see.
FsReads == IF quiet = Null THEN FsStates ELSE {quiet.disk}

\* LibraryService.create: a new library has no import paths; the catalog, the
\* queue and every worker start empty.
InitNew ==
  /\ libType \in {IMPORT, UPLOAD}
  /\ importPaths = <<>>
  /\ catalog = {}
  /\ nextId = 1
  /\ queue = EmptyBag
  /\ downstream = {}
  /\ rf = [r \in Passes |-> IdleRefresh]
  /\ sip = [k \in Sets |-> IdleSet]
  /\ passes = 0
  /\ wk = [w \in Workers |-> IdleWorker]
  /\ quiet = Null

\* An IMPORT library after a refresh: its one asset was imported and has since
\* been marked offline (SeededIsReachable is this state, reached from InitNew).
SeededAsset ==
  [id |-> 1, originalPath |-> <<"m", "v", "q", "b.mp4">>,
   checksum |-> [sha1 |-> <<"m", "v", "q", "b.mp4">>], fileModifiedAt |-> 1,
   type |-> "VIDEO", isOffline |-> TRUE]

InitSeeded ==
  /\ libType = IMPORT
  /\ importPaths \in ImportPathChoices
  /\ catalog = {SeededAsset}
  /\ nextId = 2
  /\ queue = EmptyBag
  /\ downstream = {[name |-> METADATA_EXTRACTION, id |-> 1],
                   [name |-> VIDEO_CONVERSION, id |-> 1]}
  /\ rf = [r \in Passes |-> IdleRefresh]
  /\ sip = [k \in Sets |-> IdleSet]
  /\ passes = 1
  /\ wk = [w \in Workers |-> IdleWorker]
  /\ quiet = Null

\* An UPLOAD library: it has no import paths, and its one asset was uploaded.
UploadedAsset ==
  [id |-> 1, originalPath |-> <<"upload", "u.jpg">>,
   checksum |-> [sha1 |-> <<"upload", "u.jpg">>], fileModifiedAt |-> 1,
   type |-> "IMAGE", isOffline |-> FALSE]

InitUploaded ==
  /\ libType = UPLOAD
  /\ importPaths = <<>>
  /\ catalog = {UploadedAsset}
  /\ nextId = 2
  /\ queue = EmptyBag
  /\ downstream = {[name |-> METADATA_EXTRACTION, id |-> 1]}
  /\ rf = [r \in Passes |-> IdleRefresh]
  /\ sip = [k \in Sets |-> IdleSet]
  /\ passes = 0
  /\ wk = [w \in Workers |-> IdleWorker]
  /\ quiet = Null

Init == InitNew \/ InitSeeded \/ InitUploaded

\* ------------------------------------------------------------- repositories
\* assetRepository.getByLibraryIdAndOriginalPath: the assets the lookup may return
\* (one row of those whose originalPath is exactly the given path).
AssetsAt(cat, p) == {a \in cat : a.originalPath = p}

\* assetRepository.update({id, isOffline}): the row with that id gets the flag.
UpdateOffline(cat, id, flag) ==
  {IF a.id = id THEN [a EXCEPT !.isOffline = flag] ELSE a : a \in cat}

\* assetRepository.remove(entity): the row with the entity's id is deleted.
RemoveAsset(cat, entity) == {a \in cat : a.id # entity.id}

HasId(cat, id) == \E a \in cat : a.id = id

\* assetRepository.getByLibraryId: the library's rows, as a sequence in id order.
RECURSIVE RowsFrom(_, _)
RowsFrom(cat, id) ==
  IF id >= nextId THEN <<>>
  ELSE (IF HasId(cat, id) THEN <<CHOOSE a \in cat : a.id = id>> ELSE <<>>)
       \o RowsFrom(cat, id + 1)

GetByLibraryId(cat) == RowsFrom(cat, 1)

\* jobRepository.queue of a library job.
Enqueue(q, j) == q (+) SetToBag({j})

IsPrefix(r, f) == Len(r) <= Len(f) /\ SubSeq(f, 1, Len(r)) = r

\* The walk below one root: every accessible media file under it, spelled as the
\* root followed by the file's path below the root.
RECURSIVE CrawlRoot(_, _, _)
CrawlRoot(root, fsys, k) ==
  IF k > Len(FileOrder) THEN <<>>
  ELSE LET f == FileOrder[k]
           r == Normalize(root)
       IN (IF IsPrefix(r, f) /\ fsys[f] > 0
           THEN <<root \o SubSeq(f, Len(r) + 1, Len(f))>> ELSE <<>>)
          \o CrawlRoot(root, fsys, k + 1)

\* crawler.findAllMedia({pathsToCrawl}): the media files found under each root,
\* each spelled as the root followed by the file's name.
RECURSIVE FindAllMedia(_, _)
FindAllMedia(pathsToCrawl, fsys) ==
  IF pathsToCrawl = <<>> THEN <<>>
  ELSE CrawlRoot(Head(pathsToCrawl), fsys, 1) \o FindAllMedia(Tail(pathsToCrawl), fsys)

RECURSIVE MapNormalize(_)
MapNormalize(s) ==
  IF s = <<>> THEN <<>> ELSE <<Normalize(Head(s))>> \o MapNormalize(Tail(s))

RECURSIVE MapOriginalPath(_)
MapOriginalPath(s) ==
  IF s = <<>> THEN <<>> ELSE <<Head(s).originalPath>> \o MapOriginalPath(Tail(s))

RECURSIVE FilterNotIncluded(_, _)
FilterNotIncluded(s, crawled) ==
  IF s = <<>> THEN <<>>
  ELSE (IF ~Includes(crawled, Head(s)) THEN <<Head(s)>> ELSE <<>>)
       \o FilterNotIncluded(Tail(s), crawled)

OfflineAssets_unfiltered(assets, crawled) == MapNormalize(MapOriginalPath(assets))

\* assetsInLibrary.map(originalPath).map(path.normalize).filter(not crawled)
OfflineAssets(assets, crawled) ==
  FilterNotIncluded(MapNormalize(MapOriginalPath(assets)), crawled)

\* ------------------------------------------------------------- the operator
\* The k-th call of setImportPaths, up to its second await: getLibraryById
\* resolves, and a library that is not an IMPORT library is rejected. A call does
\* not wait for the calls before it to end.
setImportPaths_getLibrary(k, paths) ==
  /\ sip[k].pc = "idle"
  /\ \A j \in Sets : j < k => sip[j].pc # "idle"
  /\ sip' = [sip EXCEPT ![k] =
              IF libType # IMPORT
              THEN [pc |-> "done", paths |-> paths, result |-> "rejected"]
              ELSE [pc |-> "write", paths |-> paths, result |-> "none"]]
  /\ UNCHANGED <<quiet, libType, importPaths, catalog, nextId, queue, downstream,
                 rf, passes, wk>>

\* Line 132: libraryRepository.setImportPaths resolves, and the call returns.
setImportPaths_write(k) ==
  /\ sip[k].pc = "write"
  /\ importPaths' = sip[k].paths
  /\ sip' = [sip EXCEPT ![k].pc = "done", ![k].result = "ok"]
  /\ UNCHANGED <<quiet, libType, catalog, nextId, queue, downstream, rf, passes, wk>>

\* ------------------------------------------------------------- refresh
LibraryJob(name, assetPath, forceRefresh, emptyTrash) ==
  [name |-> name, assetPath |-> assetPath,
   forceRefresh |-> forceRefresh, emptyTrash |-> emptyTrash]

Unchanged_refresh ==
  UNCHANGED <<sip, quiet, libType, importPaths, catalog, nextId, downstream, wk>>

refresh_getLibrary_noTypeCheck(r, dto) ==
  /\ r = passes + 1
  /\ rf[r].pc = "idle"
  /\ passes' = passes + 1
  /\ rf' = [rf EXCEPT ![r] = [IdleRefresh EXCEPT
              !.dto = dto,
              !.library = [type |-> libType, importPaths |-> importPaths],
              !.pc = "crawl"]]
  /\ UNCHANGED queue
  /\ Unchanged_refresh

\* The r-th call of refresh, up to the type check: libraryRepository.getById
\* resolves, then a library that is not an IMPORT library is rejected. A call
\* does not wait for the calls before it to end, and carries its own dto.
refresh_getLibrary(r, dto) ==
  /\ r = passes + 1
  /\ rf[r].pc = "idle"
  /\ passes' = passes + 1
  /\ rf' = [rf EXCEPT ![r] = [IdleRefresh EXCEPT
              !.dto = dto,
              !.library = [type |-> libType, importPaths |-> importPaths],
              !.pc = IF libType # IMPORT THEN "done" ELSE "crawl",
              !.result = IF libType # IMPORT THEN "rejected" ELSE "none"]]
  /\ UNCHANGED queue
  /\ Unchanged_refresh

\* After the crawl and after each queued job: the next await of the pass.
AfterCrawlPc(crawled, i) == IF i <= Len(crawled) THEN "queueRefresh" ELSE "fetch"
AfterFetchPc(offline, i) == IF i <= Len(offline) THEN "queueOffline" ELSE "done"

\* crawler.findAllMedia resolves; its result is normalized.
refresh_crawl(r) ==
  /\ rf[r].pc = "crawl"
  /\ \E fs \in FsReads :
       LET crawled == MapNormalize(FindAllMedia(rf[r].library.importPaths, fs))
       IN rf' = [rf EXCEPT ![r].crawledAssetPaths = crawled, ![r].i = 1,
                           ![r].pc = AfterCrawlPc(crawled, 1)]
  /\ UNCHANGED <<queue, passes>>
  /\ Unchanged_refresh

\* crawler.findAllMedia rejects: refresh throws.
refresh_crawlFails(r) ==
  /\ rf[r].pc = "crawl"
  /\ rf' = [rf EXCEPT ![r].pc = "done", ![r].result = "crawlFailed"]
  /\ UNCHANGED <<queue, passes>>
  /\ Unchanged_refresh

\* One iteration of the loop over crawledAssetPaths: a REFRESH_LIBRARY_FILE job.
refresh_queueRefresh(r) ==
  /\ rf[r].pc = "queueRefresh"
  /\ LET me == rf[r]
         j == LibraryJob(REFRESH_LIBRARY_FILE, Normalize(me.crawledAssetPaths[me.i]),
                         me.dto.forceRefresh, me.dto.emptyTrash)
     IN /\ queue' = Enqueue(queue, j)
        /\ rf' = [rf EXCEPT ![r].emitted = Append(@, j), ![r].i = @ + 1,
                            ![r].pc = AfterCrawlPc(me.crawledAssetPaths, me.i + 1)]
  /\ UNCHANGED passes
  /\ Unchanged_refresh

\* assetRepository.getByLibraryId resolves; the offline paths are computed.
refresh_fetchAssets(r) ==
  /\ rf[r].pc = "fetch"
  /\ LET assets == GetByLibraryId(catalog)
         offline == OfflineAssets(assets, rf[r].crawledAssetPaths)
     IN rf' = [rf EXCEPT ![r].assetsInLibrary = assets, ![r].offlineAssets = offline,
                         ![r].i = 1, ![r].pc = AfterFetchPc(offline, 1),
                         ![r].result = IF offline = <<>> THEN "ok" ELSE "none"]
  /\ UNCHANGED <<queue, passes>>
  /\ Unchanged_refresh

\* assetRepository.getByLibraryId rejects: refresh throws.
refresh_fetchFails(r) ==
  /\ rf[r].pc = "fetch"
  /\ rf' = [rf EXCEPT ![r].pc = "done", ![r].result = "fetchFailed"]
  /\ UNCHANGED <<queue, passes>>
  /\ Unchanged_refresh

refresh_queueOffline_skips(r) ==
  /\ rf[r].pc = "queueOffline"
  /\ LET next == AfterFetchPc(rf[r].offlineAssets, rf[r].i + 1)
     IN rf' = [rf EXCEPT ![r].i = @ + 1, ![r].pc = next,
                         ![r].result = IF next = "done" THEN "ok" ELSE "none"]
  /\ UNCHANGED <<queue, passes>>
  /\ Unchanged_refresh

\* One iteration of the loop over offlineAssets: an OFFLINE_LIBRARY_FILE job.
refresh_queueOffline(r) ==
  /\ rf[r].pc = "queueOffline"
  /\ LET me == rf[r]
         j == LibraryJob(OFFLINE_LIBRARY_FILE, me.offlineAssets[me.i],
                         FALSE, me.dto.emptyTrash)
         next == AfterFetchPc(me.offlineAssets, me.i + 1)
     IN /\ queue' = Enqueue(queue, j)
        /\ rf' = [rf EXCEPT ![r].emitted = Append(@, j), ![r].i = @ + 1, ![r].pc = next,
                            ![r].result = IF next = "done" THEN "ok" ELSE "none"]
  /\ UNCHANGED passes
  /\ Unchanged_refresh

\* The call has returned or thrown.
refresh_return(r) ==
  /\ rf[r].pc = "done"
  /\ rf' = [rf EXCEPT ![r] = IdleRefresh]
  /\ UNCHANGED <<queue, passes>>
  /\ Unchanged_refresh

\* ------------------------------------------------------------- job workers
Unchanged_worker == UNCHANGED <<sip, quiet, libType, importPaths, rf, passes>>

\* A row as the entity the repository returns: its dates are new Date objects.
LoadEntity(a, w) == [a EXCEPT !.fileModifiedAt = DateObj("entity", w, @)]

\* What getByLibraryIdAndOriginalPath may resolve to: one of the rows at the path,
\* null when there is none.
FoundEntities(cat, p, w) ==
  IF AssetsAt(cat, p) = {} THEN {Null} ELSE {LoadEntity(a, w) : a \in AssetsAt(cat, p)}

\* fs.promises.stat of an accessible file: mtime is a new Date object.
StatOf(fs, p, w) == [mtime |-> DateObj("stat", w, fs[p])]

Accessible(fs, p) == p \in DOMAIN fs /\ fs[p] > 0

\* handleRefreshAsset lines 154-167: the re-import decision.
DoImport(job, existingAssetEntity, stats) ==
  \/ job.forceRefresh
  \/ existingAssetEntity = Null
  \/ /\ existingAssetEntity # Null
     /\ StrictNotEqual(stats.mtime, existingAssetEntity.fileModifiedAt)

AfterDecide_noMimeCheck(doImport, assetPath) ==
  IF ~doImport THEN [pc |-> "done", result |-> "true"]
  ELSE [pc |-> "hashFile", result |-> "none"]

\* handleRefreshAsset lines 174-187, which run without an await: the early return
\* when nothing is imported, and the two MIME checks. The worker's next position
\* and the handler's result so far.
AfterDecide(doImport, assetPath) ==
  IF ~doImport THEN [pc |-> "done", result |-> "true"]
  ELSE IF MimeLookup(assetPath) = NoMime THEN [pc |-> "done", result |-> "error"]
  ELSE IF ~IsAsset(assetPath) THEN [pc |-> "done", result |-> "error"]
  ELSE [pc |-> "hashFile", result |-> "none"]

\* The workers of the pool are interchangeable: a job goes to the first worker
\* that is free.
FirstFree(w) == wk[w].pc = "idle" /\ \A v \in Workers : wk[v].pc = "idle" => w <= v

\* A worker takes a REFRESH_LIBRARY_FILE job and the handler's first await, the
\* catalog lookup, resolves.
handleRefreshAsset_lookup(w) ==
  /\ FirstFree(w)
  /\ \E j \in BagToSet(queue) :
       /\ j.name = REFRESH_LIBRARY_FILE
       /\ queue' = queue (-) SetToBag({j})
       /\ \E e \in FoundEntities(catalog, j.assetPath, w) :
            wk' = [wk EXCEPT ![w] = [IdleWorker EXCEPT !.pc = "stat", !.job = j,
                                                      !.existingAssetEntity = e]]
  /\ UNCHANGED <<catalog, nextId, downstream>>
  /\ Unchanged_worker

\* Lines 142-152, the catch block of the stat: an existing asset is to be marked
\* offline, and without one the handler throws.
StatFailure_returnsTrue(existingAssetEntity) ==
  IF existingAssetEntity # Null THEN [pc |-> "markOffline", result |-> "none"]
  ELSE [pc |-> "done", result |-> "true"]

StatFailure_removes(existingAssetEntity) ==
  IF existingAssetEntity # Null THEN [pc |-> "remove", result |-> "none"]
  ELSE [pc |-> "done", result |-> "error"]

StatFailure_alwaysThrows(existingAssetEntity) == [pc |-> "done", result |-> "error"]

StatFailure(existingAssetEntity) ==
  IF existingAssetEntity # Null THEN [pc |-> "markOffline", result |-> "none"]
  ELSE [pc |-> "done", result |-> "error"]

\* Line 169: existingAssetEntity?.isOffline
NeedsClear_never(existingAssetEntity) == FALSE

NeedsClear_always(existingAssetEntity) == existingAssetEntity # Null

NeedsClear(existingAssetEntity) ==
  existingAssetEntity # Null /\ existingAssetEntity.isOffline

\* fs.promises.stat resolves or rejects, and the code up to the next await runs:
\* the catch block, or the decision of lines 154-167 and the test of line 169.
handleRefreshAsset_stat(w) ==
  /\ wk[w].pc = "stat"
  /\ \E fs \in FsReads :
     LET me == wk[w]
         p == me.job.assetPath
     IN IF ~Accessible(fs, p)
        THEN wk' = [wk EXCEPT ![w].pc = StatFailure(me.existingAssetEntity).pc,
                              ![w].result = StatFailure(me.existingAssetEntity).result]
        ELSE LET stats == StatOf(fs, p, w)
                 doImport == DoImport(me.job, me.existingAssetEntity, stats)
                 next == AfterDecide(doImport, p)
                 clear == NeedsClear(me.existingAssetEntity)
             IN wk' = [wk EXCEPT ![w].stats = stats, ![w].doImport = doImport,
                                 ![w].pc = IF clear THEN "clearOffline" ELSE next.pc,
                                 ![w].result = IF clear THEN "none" ELSE next.result]
  /\ UNCHANGED <<catalog, nextId, queue, downstream>>
  /\ Unchanged_worker

\* The outcomes of assetRepository.update on a row another job has removed
\* meanwhile: it changes nothing, and resolves or rejects.
UpdateOutcomes(cat, id) == IF HasId(cat, id) THEN {"ok"} ELSE {"ok", "error"}

\* Line 146: the existing asset is marked offline, and the handler returns true.
handleRefreshAsset_markOffline(w) ==
  /\ wk[w].pc = "markOffline"
  /\ catalog' = UpdateOffline(catalog, wk[w].existingAssetEntity.id, TRUE)
  /\ \E o \in UpdateOutcomes(catalog, wk[w].existingAssetEntity.id) :
       wk' = [wk EXCEPT ![w].pc = "done", ![w].writes = @ + 1,
                        ![w].result = IF o = "ok" THEN "true" ELSE "error"]
  /\ UNCHANGED <<nextId, queue, downstream>>
  /\ Unchanged_worker

\* Line 171: the existing asset's offline flag is cleared; then lines 174-187.
handleRefreshAsset_clearOffline(w) ==
  /\ wk[w].pc = "clearOffline"
  /\ catalog' = UpdateOffline(catalog, wk[w].existingAssetEntity.id, FALSE)
  /\ \E o \in UpdateOutcomes(catalog, wk[w].existingAssetEntity.id) :
       LET next == AfterDecide(wk[w].doImport, wk[w].job.assetPath)
       IN wk' = [wk EXCEPT ![w].writes = @ + 1,
                           ![w].pc = IF o = "ok" THEN next.pc ELSE "done",
                           ![w].result = IF o = "ok" THEN next.result ELSE "error"]
  /\ UNCHANGED <<nextId, queue, downstream>>
  /\ Unchanged_worker

\* Line 189: cryptoRepository.hashFile reads the file, and rejects when it is
\* gone; then lines 190-191, which run without an await.
handleRefreshAsset_hashFile(w) ==
  /\ wk[w].pc = "hashFile"
  /\ \E fs \in FsReads :
     LET p == wk[w].job.assetPath
     IN IF Accessible(fs, p)
        THEN wk' = [wk EXCEPT ![w].checksum = [sha1 |-> p], ![w].pc = "access"]
        ELSE wk' = [wk EXCEPT ![w].pc = "done", ![w].result = "error"]
  /\ UNCHANGED <<catalog, nextId, queue, downstream>>
  /\ Unchanged_worker

\* Lines 194-198: the probe for a sidecar file, fs.promises.access, resolves or
\* rejects; the handler goes on either way. The sidecarPath it sets is not among
\* the fields of an asset the model keeps.
handleRefreshAsset_access(w) ==
  /\ wk[w].pc = "access"
  /\ wk' = [wk EXCEPT ![w].pc = "create"]
  /\ UNCHANGED <<catalog, nextId, queue, downstream>>
  /\ Unchanged_worker

\* The record handleRefreshAsset hands to assetRepository.create (lines 201-232).
NewAsset(id, job, stats, checksum) ==
  [id |-> id, originalPath |-> job.assetPath, checksum |-> checksum,
   fileModifiedAt |-> stats.mtime.time,
   type |-> AssetTypeOf(MimeLookup(job.assetPath)), isOffline |-> FALSE]

\* Line 201: assetRepository.create inserts a new row.
handleRefreshAsset_create(w) ==
  /\ wk[w].pc = "create"
  /\ LET a == NewAsset(nextId, wk[w].job, wk[w].stats, wk[w].checksum)
     IN /\ catalog' = catalog \cup {a}
        /\ wk' = [wk EXCEPT ![w].addedAsset = a, ![w].writes = @ + 1,
                            ![w].pc = "queueMetadata"]
  /\ nextId' = nextId + 1
  /\ UNCHANGED <<queue, downstream>>
  /\ Unchanged_worker

FollowOn_noId(name, id) == [name |-> name, id |-> 0]

\* The follow-on job jobRepository.queue is handed: its name and the asset's id.
FollowOn(name, id) == [name |-> name, id |-> id]

IsVideo_never(addedAsset) == FALSE

\* Line 239: addedAsset.type === AssetType.VIDEO
IsVideo(addedAsset) == addedAsset.type = "VIDEO"

\* Line 234: the METADATA_EXTRACTION job; then the test of the asset's type.
handleRefreshAsset_queueMetadata(w) ==
  /\ wk[w].pc = "queueMetadata"
  /\ LET j == FollowOn(METADATA_EXTRACTION, wk[w].addedAsset.id)
         video == IsVideo(wk[w].addedAsset)
     IN /\ downstream' = downstream \cup {j}
        /\ wk' = [wk EXCEPT ![w].enq = Append(@, j),
                            ![w].pc = IF video THEN "queueVideo" ELSE "done",
                            ![w].result = IF video THEN "none" ELSE "true"]
  /\ UNCHANGED <<catalog, nextId, queue>>
  /\ Unchanged_worker

\* Line 240: the VIDEO_CONVERSION job; the handler returns true.
handleRefreshAsset_queueVideo(w) ==
  /\ wk[w].pc = "queueVideo"
  /\ LET j == FollowOn(VIDEO_CONVERSION, wk[w].addedAsset.id)
     IN /\ downstream' = downstream \cup {j}
        /\ wk' = [wk EXCEPT ![w].enq = Append(@, j), ![w].pc = "done",
                            ![w].result = "true"]
  /\ UNCHANGED <<catalog, nextId, queue>>
  /\ Unchanged_worker

OfflineNext_ignoresMissing(existingAssetEntity, job) ==
  IF existingAssetEntity = Null THEN [pc |-> "done", result |-> "true"]
  ELSE IF job.emptyTrash THEN [pc |-> "remove", result |-> "none"]
  ELSE [pc |-> "update", result |-> "none"]

\* Lines 249-259: the handler throws when there is no asset at the path, removes
\* the asset when the job carries emptyTrash, and marks it offline otherwise.
OfflineNext(existingAssetEntity, job) ==
  IF existingAssetEntity = Null THEN [pc |-> "done", result |-> "error"]
  ELSE IF job.emptyTrash THEN [pc |-> "remove", result |-> "none"]
  ELSE [pc |-> "update", result |-> "none"]

\* A worker takes an OFFLINE_LIBRARY_FILE job and the handler's catalog lookup
\* resolves.
handleOfflineAsset_lookup(w) ==
  /\ FirstFree(w)
  /\ \E j \in BagToSet(queue) :
       /\ j.name = OFFLINE_LIBRARY_FILE
       /\ queue' = queue (-) SetToBag({j})
       /\ \E e \in FoundEntities(catalog, j.assetPath, w) :
            wk' = [wk EXCEPT ![w] =
                     [IdleWorker EXCEPT
                        !.job = j, !.existingAssetEntity = e,
                        !.pc = OfflineNext(e, j).pc,
                        !.result = OfflineNext(e, j).result]]
  /\ UNCHANGED <<catalog, nextId, downstream>>
  /\ Unchanged_worker

handleOfflineAsset_remove_all(w) ==
  /\ wk[w].pc = "remove"
  /\ catalog' = {}
  /\ wk' = [wk EXCEPT ![w].pc = "done", ![w].writes = @ + 1, ![w].result = "true"]
  /\ UNCHANGED <<nextId, queue, downstream>>
  /\ Unchanged_worker

\* Line 255: the asset is removed from the catalog.
handleOfflineAsset_remove(w) ==
  /\ wk[w].pc = "remove"
  /\ catalog' = RemoveAsset(catalog, wk[w].existingAssetEntity)
  /\ wk' = [wk EXCEPT ![w].pc = "done", ![w].writes = @ + 1, ![w].result = "true"]
  /\ UNCHANGED <<nextId, queue, downstream>>
  /\ Unchanged_worker

\* Line 258: the asset is marked offline.
handleOfflineAsset_update(w) ==
  /\ wk[w].pc = "update"
  /\ catalog' = UpdateOffline(catalog, wk[w].existingAssetEntity.id, TRUE)
  /\ \E o \in UpdateOutcomes(catalog, wk[w].existingAssetEntity.id) :
       wk' = [wk EXCEPT ![w].pc = "done", ![w].writes = @ + 1,
                        ![w].result = IF o = "ok" THEN "true" ELSE "error"]
  /\ UNCHANGED <<nextId, queue, downstream>>
  /\ Unchanged_worker

\* The handler has returned or thrown: the worker is free for its next job.
worker_return(w) ==
  /\ wk[w].pc = "done"
  /\ wk' = [wk EXCEPT ![w] = IdleWorker]
  /\ UNCHANGED <<catalog, nextId, queue, downstream>>
  /\ Unchanged_worker

\* ------------------------------------------------------------- a quiet disk
\* Files the crawler's filter lets through and the ingest job's MIME checks do
\* not: one whose MIME type is unknown, one whose MIME type is not an asset's.
OddFiles == {<<"x", "c.xyz">>, <<"x", "d.txt">>}
DiskFiles == FilePaths \cup OddFiles

\* The filesystems that hold still: the odd files are there or not.
QuietDisks ==
  {f \in [DiskFiles -> 0..MaxMtime] : \A p \in OddFiles : f[p] <= 1}

\* An asset imported earlier from the file at p, when its mtime was t.
Seed(id, p, offline, t) ==
  [id |-> id, originalPath |-> p, checksum |-> [sha1 |-> p], fileModifiedAt |-> t,
   type |-> AssetTypeOf(MimeLookup(p)), isOffline |-> offline]

\* What an imported asset can look like: its path, its offline flag and its mtime.
SeedShapes == [p : FilePaths, o : BOOLEAN, t : 1..MaxMtime]

\* The catalogs of n assets: the ingest job creates a row for a path that has one
\* already, so that two assets may have the same path.
SeedCatalogsOf(n) ==
  {{Seed(i, f[i].p, f[i].o, f[i].t) : i \in 1..n} : f \in [1..n -> SeedShapes]}

\* The catalogs earlier refreshes leave, of MaxSeeds assets at most.
SeedCatalogs == UNION {SeedCatalogsOf(n) : n \in 0..MaxSeeds}

\* A catalog that holds at most one asset for a path.
OnePerPath(cat) == \A a, b \in cat : a.originalPath = b.originalPath => a = b

\* The follow-on jobs the imports of a catalog's assets have queued.
DownstreamOf(cat) ==
  {FollowOn(METADATA_EXTRACTION, a.id) : a \in cat}
    \cup {FollowOn(VIDEO_CONVERSION, a.id) : a \in {b \in cat : b.type = "VIDEO"}}

\* The job of either kind a refresh with the request d queues for the path p.
PassJob(name, p, d) ==
  LibraryJob(name, p, IF name = REFRESH_LIBRARY_FILE THEN d.forceRefresh ELSE FALSE,
             d.emptyTrash)

\* The jobs refreshes can queue for the path p, whatever their requests.
PassJobs(p) ==
  {PassJob(n, p, d) : n \in {REFRESH_LIBRARY_FILE, OFFLINE_LIBRARY_FILE}, d \in Dtos}

\* The filesystem as two jobs meet it: a job reads the file at its own path and
\* no other, so that the disk holds the files at the jobs' paths, or fewer.
PairDisks(p, q) == {f \in QuietDisks : \A x \in DiskFiles \ {p, q} : f[x] = 0}

\* Two jobs for different paths wait in the queue, left by two refreshes, each
\* with its own request, of a library that has been refreshed before; the
\* filesystem holds still while they run.
InitPair ==
  /\ libType = IMPORT
  /\ importPaths = << <<"m", ".">>, <<"x">> >>
  /\ catalog \in SeedCatalogs
  /\ nextId = Cardinality(catalog) + 1
  /\ \E p, q \in DiskFiles :
       /\ p # q
       /\ \E j1 \in PassJobs(p), j2 \in PassJobs(q) : queue = SetToBag({j1, j2})
       /\ \E d \in PairDisks(p, q) : quiet = [disk |-> d, before |-> catalog]
  /\ downstream = DownstreamOf(catalog)
  /\ rf = [r \in Passes |-> IdleRefresh]
  /\ sip = [k \in Sets |-> IdleSet]
  /\ passes = MaxPasses
  /\ wk = [w \in Workers |-> IdleWorker]

\* The filesystems that hold still with media files of supported types only.
StillDisks == {f \in QuietDisks : \A p \in OddFiles : f[p] = 0}

\* A library that has been refreshed before, with one more refresh to request;
\* the filesystem holds still from the request to the end of the last job.
InitQuiet ==
  /\ libType = IMPORT
  /\ importPaths \in WideChoices
  /\ catalog \in SeedCatalogs
  /\ nextId = Cardinality(catalog) + 1
  /\ queue = EmptyBag
  /\ downstream = DownstreamOf(catalog)
  /\ rf = [r \in Passes |-> IdleRefresh]
  /\ sip = [k \in Sets |-> IdleSet]
  /\ passes = MaxPasses - 1
  /\ wk = [w \in Workers |-> IdleWorker]
  /\ \E d \in StillDisks : quiet = [disk |-> d, before |-> catalog]

\* ------------------------------------------------------------- specification
\* The service with two workers and a filesystem that changes between any two
\* reads, over the directory of the videos: calls of refresh overlap each other
\* and the operator's change of the import paths.
Next ==
  \/ \E k \in Sets, paths \in ImportPathChoices : setImportPaths_getLibrary(k, paths)
  \/ \E k \in Sets : setImportPaths_write(k)
  \/ \E r \in Passes, dto \in Dtos : refresh_getLibrary(r, dto)
  \/ \E r \in Passes : refresh_crawl(r)
  \/ \E r \in Passes : refresh_crawlFails(r)
  \/ \E r \in Passes : refresh_queueRefresh(r)
  \/ \E r \in Passes : refresh_fetchAssets(r)
  \/ \E r \in Passes : refresh_fetchFails(r)
  \/ \E r \in Passes : refresh_queueOffline(r)
  \/ \E w \in Workers : handleRefreshAsset_lookup(w)
  \/ \E w \in Workers : handleRefreshAsset_stat(w)
  \/ \E w \in Workers : handleRefreshAsset_markOffline(w)
  \/ \E w \in Workers : handleRefreshAsset_clearOffline(w)
  \/ \E w \in Workers : handleRefreshAsset_hashFile(w)
  \/ \E w \in Workers : handleRefreshAsset_access(w)
  \/ \E w \in Workers : handleRefreshAsset_create(w)
  \/ \E w \in Workers : handleRefreshAsset_queueMetadata(w)
  \/ \E w \in Workers : handleRefreshAsset_queueVideo(w)
  \/ \E w \in Workers : handleOfflineAsset_lookup(w)
  \/ \E w \in Workers : handleOfflineAsset_remove(w)
  \/ \E w \in Workers : handleOfflineAsset_update(w)
  \/ \E w \in Workers : worker_return(w)
  \/ \E r \in Passes : refresh_return(r)

Spec == Init /\ [][Next]_vars

\* The same service with one worker, so that jobs run one after the other, over
\* nested import paths, so that a crawl meets a file twice, from a new library.
NextNested ==
  \/ \E k \in Sets, paths \in NestedChoices : setImportPaths_getLibrary(k, paths)
  \/ \E k \in Sets : setImportPaths_write(k)
  \/ \E r \in Passes, dto \in Dtos : refresh_getLibrary(r, dto)
  \/ \E r \in Passes : refresh_crawl(r)
  \/ \E r \in Passes : refresh_crawlFails(r)
  \/ \E r \in Passes : refresh_queueRefresh(r)
  \/ \E r \in Passes : refresh_fetchAssets(r)
  \/ \E r \in Passes : refresh_fetchFails(r)
  \/ \E r \in Passes : refresh_queueOffline(r)
  \/ \E r \in Passes : refresh_return(r)
  \/ handleRefreshAsset_lookup(1)
  \/ handleRefreshAsset_stat(1)
  \/ handleRefreshAsset_markOffline(1)
  \/ handleRefreshAsset_clearOffline(1)
  \/ handleRefreshAsset_hashFile(1)
  \/ handleRefreshAsset_access(1)
  \/ handleRefreshAsset_create(1)
  \/ handleRefreshAsset_queueMetadata(1)
  \/ handleRefreshAsset_queueVideo(1)
  \/ handleOfflineAsset_lookup(1)
  \/ handleOfflineAsset_remove(1)
  \/ handleOfflineAsset_update(1)
  \/ worker_return(1)

SpecNested == InitNew /\ [][NextNested]_vars

\* The two workers run the two waiting jobs, each to its end.
NextPair ==
  \/ \E w \in Workers : handleRefreshAsset_lookup(w)
  \/ \E w \in Workers : handleRefreshAsset_stat(w)
  \/ \E w \in Workers : handleRefreshAsset_markOffline(w)
  \/ \E w \in Workers : handleRefreshAsset_clearOffline(w)
  \/ \E w \in Workers : handleRefreshAsset_hashFile(w)
  \/ \E w \in Workers : handleRefreshAsset_access(w)
  \/ \E w \in Workers : handleRefreshAsset_create(w)
  \/ \E w \in Workers : handleRefreshAsset_queueMetadata(w)
  \/ \E w \in Workers : handleRefreshAsset_queueVideo(w)
  \/ \E w \in Workers : handleOfflineAsset_lookup(w)
  \/ \E w \in Workers : handleOfflineAsset_remove(w)
  \/ \E w \in Workers : handleOfflineAsset_update(w)

SpecPair == InitPair /\ [][NextPair]_vars

\* One refresh pass and its jobs on a filesystem that holds still: every file the
\* crawl found is there for its job's stat, so that no ingest job takes the catch
\* block of the stat.
NextQuiet ==
  \/ \E r \in Passes, dto \in Dtos : refresh_getLibrary(r, dto)
  \/ \E r \in Passes : refresh_crawl(r)
  \/ \E r \in Passes : refresh_crawlFails(r)
  \/ \E r \in Passes : refresh_queueRefresh(r)
  \/ \E r \in Passes : refresh_fetchAssets(r)
  \/ \E r \in Passes : refresh_fetchFails(r)
  \/ \E r \in Passes : refresh_queueOffline(r)
  \/ \E r \in Passes : refresh_return(r)
  \/ \E w \in Workers : handleRefreshAsset_lookup(w)
  \/ \E w \in Workers : handleRefreshAsset_stat(w)
  \/ \E w \in Workers : handleRefreshAsset_clearOffline(w)
  \/ \E w \in Workers : handleRefreshAsset_hashFile(w)
  \/ \E w \in Workers : handleRefreshAsset_access(w)
  \/ \E w \in Workers : handleRefreshAsset_create(w)
  \/ \E w \in Workers : handleRefreshAsset_queueMetadata(w)
  \/ \E w \in Workers : handleRefreshAsset_queueVideo(w)
  \/ \E w \in Workers : handleOfflineAsset_lookup(w)
  \/ \E w \in Workers : handleOfflineAsset_remove(w)
  \/ \E w \in Workers : handleOfflineAsset_update(w)
  \/ \E w \in Workers : worker_return(w)

SpecQuiet == InitQuiet /\ [][NextQuiet]_vars

\* ------------------------------------------------------------- properties
\* The jobs of one kind the r-th refresh pass has enqueued so far.
EmittedAt(r, name) == {i \in 1..Len(rf[r].emitted) : rf[r].emitted[i].name = name}
EmittedPaths(r, name) == {rf[r].emitted[i].assetPath : i \in EmittedAt(r, name)}
EmittedFor(r, name, p) == {i \in EmittedAt(r, name) : rf[r].emitted[i].assetPath = p}

\* The normalized originalPaths of the assets the pass fetched.
FetchedPaths(r) == {Normalize(a.originalPath) : a \in Range(rf[r].assetsInLibrary)}
CrawledPaths(r) == Range(rf[r].crawledAssetPaths)

\* The state InitSeeded starts from, as SpecNested reaches it.
SeededIsReachable ==
  /\ catalog = {SeededAsset}
  /\ nextId = 2
  /\ downstream = {[name |-> METADATA_EXTRACTION, id |-> 1],
                   [name |-> VIDEO_CONVERSION, id |-> 1]}
  /\ queue = EmptyBag
  /\ passes = 1
  /\ rf = [r \in Passes |-> IdleRefresh]
  /\ \A k \in Sets : sip[k].pc # "write"
  /\ wk = [w \in Workers |-> IdleWorker]

PassCompleted(r) == rf[r].pc = "done" /\ rf[r].result = "ok"

IsIngest(w) == wk[w].job # Null /\ wk[w].job.name = REFRESH_LIBRARY_FILE
IsOffline(w) == wk[w].job # Null /\ wk[w].job.name = OFFLINE_LIBRARY_FILE

\* C1: in one refresh pass a path that is both crawled and cataloged gets a
\* REFRESH_LIBRARY_FILE job and no OFFLINE_LIBRARY_FILE job, and at no moment of
\* the pass has a path received jobs of both kinds.
C1_SeenOnDiskTakesPrecedence ==
  \A r \in Passes :
    /\ EmittedPaths(r, REFRESH_LIBRARY_FILE) \cap EmittedPaths(r, OFFLINE_LIBRARY_FILE) = {}
    /\ PassCompleted(r) =>
         \A p \in CrawledPaths(r) \cap FetchedPaths(r) :
           /\ p \in EmittedPaths(r, REFRESH_LIBRARY_FILE)
           /\ p \notin EmittedPaths(r, OFFLINE_LIBRARY_FILE)

\* A completed pass that met a path both on disk and in the catalog, and a path in
\* the catalog alone.
C1_Witness ==
  \E r \in Passes :
    /\ PassCompleted(r)
    /\ CrawledPaths(r) \cap FetchedPaths(r) # {}
    /\ EmittedPaths(r, OFFLINE_LIBRARY_FILE) # {}

\* C2: a completed refresh pass has enqueued exactly one OFFLINE_LIBRARY_FILE job,
\* carrying the request's emptyTrash, for every cataloged path that was not
\* crawled, and no offline job for any other path.
C2_OneOfflineJobPerMissingPath ==
  \A r \in Passes :
    PassCompleted(r) =>
      \A p \in FilePaths \cup FetchedPaths(r) \cup CrawledPaths(r) :
        LET jobs == EmittedFor(r, OFFLINE_LIBRARY_FILE, p)
        IN /\ Cardinality(jobs) =
                (IF p \in FetchedPaths(r) \ CrawledPaths(r) THEN 1 ELSE 0)
           /\ \A i \in jobs : rf[r].emitted[i].emptyTrash = rf[r].dto.emptyTrash

\* C3: a refresh pass that fails on the crawl or on the fetch of the library's
\* assets has enqueued no job.
C3_NoJobBeforeFailure ==
  \A r \in Passes :
    rf[r].result \in {"crawlFailed", "fetchFailed"} => rf[r].emitted = <<>>

\* C4: the catalog holds at most one Asset record per originalPath.
C4_OneAssetPerPath ==
  \A a, b \in catalog : a.originalPath = b.originalPath => a.id = b.id

\* An ingest job that found an asset it had imported from the file as it is now:
\* the stat succeeded with the mtime the asset records, the asset is online, and
\* no forced refresh was asked for.
UnchangedRerun(w) ==
  /\ IsIngest(w)
  /\ wk[w].stats # Null
  /\ wk[w].existingAssetEntity # Null
  /\ ~wk[w].existingAssetEntity.isOffline
  /\ ~wk[w].job.forceRefresh
  /\ wk[w].stats.mtime.time = wk[w].existingAssetEntity.fileModifiedAt.time

\* C5: the second run of the ingest job on an unchanged file (same mtime,
\* forceRefresh = false) imports nothing: it writes no Asset record, enqueues no
\* follow-on job and returns true.
C5_SecondRunIsNoOp ==
  \A w \in Workers :
    UnchangedRerun(w) =>
      /\ wk[w].pc = "done"
      /\ wk[w].result = "true"
      /\ wk[w].writes = 0
      /\ wk[w].enq = <<>>

\* An ingest job that found no asset at its path and has created one.
CreatedAsNew(w) ==
  /\ IsIngest(w)
  /\ wk[w].existingAssetEntity = Null
  /\ wk[w].addedAsset # Null

\* C6: ingest decisions are serialized per path, so that no two ingest jobs for
\* the same path both find no existing asset and both create a record.
C6_NoDoubleCreate ==
  \A v, w \in Workers :
    (v # w /\ CreatedAsNew(v) /\ CreatedAsNew(w)) =>
      wk[v].job.assetPath # wk[w].job.assetPath

\* C7: the write of an offline job that found an asset leaves no Asset record at
\* the path when emptyTrash is set, and otherwise exactly one, offline and with
\* its other fields as they were; the job returns true.
C7_OfflineJobLeaves ==
  [][\A w \in Workers :
       (wk[w].pc \in {"remove", "update"} /\ wk'[w].pc = "done") =>
         LET p == wk[w].job.assetPath
             e == wk[w].existingAssetEntity
             left == {a \in catalog' : a.originalPath = p}
         IN /\ wk'[w].result = "true"
            /\ IF wk[w].job.emptyTrash
               THEN left = {}
               ELSE /\ Cardinality(left) = 1
                    /\ \A a \in left :
                         /\ a.isOffline
                         /\ a.id = e.id
                         /\ a.type = e.type
                         /\ a.checksum = e.checksum
                         /\ a.fileModifiedAt = e.fileModifiedAt.time]_vars

\* An ingest job whose stat succeeded and whose existing asset was offline.
FoundOfflineOnDisk(w) ==
  /\ IsIngest(w)
  /\ wk[w].stats # Null
  /\ wk[w].existingAssetEntity # Null
  /\ wk[w].existingAssetEntity.isOffline

\* C8, as the spec states it: once the stat has succeeded and the re-import
\* decision (doImport) has been evaluated, the offline flag has been cleared.
C8_ClearedBeforeDecision ==
  \A w \in Workers : FoundOfflineOnDisk(w) => wk[w].writes >= 1

\* C8, amended: the offline flag is cleared before the decision is acted on, that
\* is before the handler returns or starts the import, whether doImport is true
\* or false: only at the clearing step itself is the write still to come.
C8_ClearedBeforeActing ==
  \A w \in Workers :
    FoundOfflineOnDisk(w) =>
      IF wk[w].pc = "clearOffline" THEN wk[w].writes = 0 ELSE wk[w].writes >= 1

\* The offline asset's file is back and the flag has been cleared ahead of the import.
C8_Witness ==
  \E w \in Workers :
    /\ FoundOfflineOnDisk(w)
    /\ wk[w].pc = "hashFile"
    /\ wk[w].writes = 1
    /\ \E a \in catalog : a.id = wk[w].existingAssetEntity.id /\ ~a.isOffline

\* C9: when the stat fails and an asset exists at the path, the job goes on to
\* mark that asset offline, and that write sets the asset's isOffline, changes
\* nothing else, and ends the job with true: nothing is created, hashed or enqueued.
C9_StatFailureMarksOffline ==
  [][\A w \in Workers :
       /\ (/\ wk[w].pc = "stat" /\ wk'[w].pc # "stat" /\ wk'[w].stats = Null
           /\ wk[w].existingAssetEntity # Null)
          => (wk'[w].pc = "markOffline" /\ catalog' = catalog)
       /\ (/\ wk[w].pc = "markOffline" /\ wk'[w].pc # "markOffline"
           /\ \E a \in catalog : a.id = wk[w].existingAssetEntity.id)
          => /\ wk'[w].pc = "done"
             /\ wk'[w].result = "true"
             /\ \A a \in catalog :
                  IF a.id = wk[w].existingAssetEntity.id
                  THEN [a EXCEPT !.isOffline = TRUE] \in catalog'
                  ELSE a \in catalog'
             /\ Cardinality(catalog') = Cardinality(catalog)
             /\ wk'[w].addedAsset = Null
             /\ wk'[w].checksum = Null
             /\ wk'[w].enq = <<>>
             /\ nextId' = nextId
             /\ downstream' = downstream
             /\ queue' = queue]_vars

\* An ingest job has returned true after its stat failed on a cataloged path.
C9_Witness ==
  \E w \in Workers :
    /\ IsIngest(w)
    /\ wk[w].pc = "done"
    /\ wk[w].stats = Null
    /\ wk[w].existingAssetEntity # Null
    /\ wk[w].result = "true"
    /\ \E a \in catalog : a.id = wk[w].existingAssetEntity.id /\ a.isOffline

\* C10: when the stat fails and no asset exists at the path, the job fails, and
\* neither the catalog nor the queues change.
C10_StatFailureWithoutAssetFails ==
  [][\A w \in Workers :
       (/\ wk[w].pc = "stat" /\ wk'[w].pc # "stat" /\ wk'[w].stats = Null
        /\ wk[w].existingAssetEntity = Null)
       => /\ wk'[w].pc = "done"
          /\ wk'[w].result = "error"
          /\ wk'[w].writes = 0
          /\ wk'[w].enq = <<>>
          /\ catalog' = catalog
          /\ nextId' = nextId
          /\ queue' = queue
          /\ downstream' = downstream]_vars

\* An ingest job has failed on a path that is neither accessible nor cataloged.
C10_Witness ==
  \E w \in Workers :
    /\ IsIngest(w)
    /\ wk[w].pc = "done"
    /\ wk[w].stats = Null
    /\ wk[w].existingAssetEntity = Null
    /\ wk[w].result = "error"

\* ------------------------------------------------------------- jobs run alone
\* handleRefreshAsset run from its first line to its last with no other job in
\* between, on the quiet disk, its lookup having returned e: the catalog and the
\* next id it leaves.
IngestLeaves(s, job, e) ==
  LET p == job.assetPath
  IN IF ~Accessible(quiet.disk, p)
     THEN IF StatFailure(e).pc = "markOffline"
          THEN [s EXCEPT !.catalog = UpdateOffline(@, e.id, TRUE)]
          ELSE s
     ELSE LET stats == StatOf(quiet.disk, p, 0)
              doImport == DoImport(job, e, stats)
              cleared == IF NeedsClear(e) THEN UpdateOffline(s.catalog, e.id, FALSE)
                         ELSE s.catalog
          IN IF AfterDecide(doImport, p).pc = "hashFile"
             THEN [catalog |-> cleared \cup {NewAsset(s.nextId, job, stats, [sha1 |-> p])},
                   nextId |-> s.nextId + 1]
             ELSE [s EXCEPT !.catalog = cleared]

\* What handleRefreshAsset run alone can leave: one outcome for each row its
\* lookup may return.
RunIngest(s, job) ==
  {IngestLeaves(s, job, e) : e \in FoundEntities(s.catalog, job.assetPath, 0)}

\* handleOfflineAsset run alone, its lookup having returned e.
OfflineLeaves(s, job, e) ==
  LET next == OfflineNext(e, job).pc
  IN IF next = "remove" THEN [s EXCEPT !.catalog = RemoveAsset(@, e)]
     ELSE IF next = "update" THEN [s EXCEPT !.catalog = UpdateOffline(@, e.id, TRUE)]
     ELSE s

RunOffline(s, job) ==
  {OfflineLeaves(s, job, e) : e \in FoundEntities(s.catalog, job.assetPath, 0)}

RunJob(s, job) ==
  IF job.name = REFRESH_LIBRARY_FILE THEN RunIngest(s, job) ELSE RunOffline(s, job)

\* What the first job and then the second, each run alone, can leave.
RunBoth(s, j1, j2) == UNION {RunJob(t, j2) : t \in RunJob(s, j1)}

\* The catalog the behaviour started from.
Before == [catalog |-> quiet.before, nextId |-> Cardinality(quiet.before) + 1]

\* Asset ids are arbitrary: two catalogs are the same when they hold the same
\* records, as many times, ids aside.
StripId(a) ==
  [originalPath |-> a.originalPath, checksum |-> a.checksum,
   fileModifiedAt |-> a.fileModifiedAt, type |-> a.type, isOffline |-> a.isOffline]

SameRecords(c1, c2) ==
  \A r \in {StripId(a) : a \in c1 \cup c2} :
    Cardinality({a \in c1 : StripId(a) = r}) = Cardinality({a \in c2 : StripId(a) = r})

BothDone == \A w \in Workers : wk[w].pc = "done"

\* An ingest job whose stat succeeded and selected import, for a path whose MIME
\* type is unknown or is not an asset's.
Unprocessable(w) ==
  /\ IsIngest(w)
  /\ wk[w].stats # Null
  /\ wk[w].doImport
  /\ (MimeLookup(wk[w].job.assetPath) = NoMime \/ ~IsAsset(wk[w].job.assetPath))

\* C11: an ingest job that selects import for a path whose MIME type is unknown
\* or unsupported fails, creating no Asset record and enqueuing no follow-on
\* job; and once it and a job for another path running beside it have both
\* ended, the catalog and the follow-on jobs are what the other job leaves when
\* it runs alone.
C11_UnprocessableFailsAlone ==
  \A w \in Workers :
    Unprocessable(w) =>
      /\ wk[w].pc = "done"
      /\ wk[w].result = "error"
      /\ wk[w].addedAsset = Null
      /\ wk[w].enq = <<>>
      /\ AssetsAt(catalog, wk[w].job.assetPath) = {}
      /\ \A v \in Workers \ {w} :
           BothDone =>
             /\ \E s \in RunJob(Before, wk[v].job) : SameRecords(catalog, s.catalog)
             /\ downstream = DownstreamOf(quiet.before) \cup Range(wk[v].enq)

\* An unprocessable path has failed beside an import that went through.
C11_Witness ==
  /\ BothDone
  /\ Unprocessable(1)
  /\ wk[2].addedAsset # Null
  /\ wk[2].result = "true"

\* An ingest job that has returned true.
Handled(w) == IsIngest(w) /\ wk[w].pc = "done" /\ wk[w].result = "true"

\* C12: an ingest job that has completed an import has enqueued one
\* METADATA_EXTRACTION job for the asset it imported, and after it a
\* VIDEO_CONVERSION job for that asset exactly when the file is a video; an ingest
\* job that has returned without importing has enqueued nothing.
C12_FollowOnJobs ==
  \A w \in Workers :
    Handled(w) =>
      IF wk[w].addedAsset # Null
      THEN LET id == wk[w].addedAsset.id
               video == AssetTypeOf(MimeLookup(wk[w].job.assetPath)) = "VIDEO"
           IN /\ wk[w].enq = <<FollowOn(METADATA_EXTRACTION, id)>>
                                \o (IF video THEN <<FollowOn(VIDEO_CONVERSION, id)>>
                                    ELSE <<>>)
              /\ Range(wk[w].enq) \subseteq downstream
      ELSE wk[w].enq = <<>>

\* An image and a video have both been imported.
C12_Witness ==
  \E v, w \in Workers :
    /\ Handled(v) /\ wk[v].addedAsset # Null /\ wk[v].addedAsset.type = "VIDEO"
    /\ Len(wk[v].enq) = 2
    /\ Handled(w) /\ wk[w].addedAsset # Null /\ wk[w].addedAsset.type = "IMAGE"
    /\ Len(wk[w].enq) = 1

\* C13: a refresh requested on a library that is not an IMPORT library is
\* rejected at once, before any crawl; such a library never has a job of either
\* kind enqueued and its catalog never changes.
C13_NonImportRejected ==
  /\ [](libType # IMPORT =>
          /\ \A r \in Passes :
               /\ rf[r].pc \in {"idle", "done"}
               /\ rf[r].crawledAssetPaths = <<>>
               /\ rf[r].emitted = <<>>
          /\ queue = EmptyBag)
  /\ [][libType # IMPORT =>
          /\ catalog' = catalog
          /\ queue' = queue
          /\ \A r \in Passes :
               (rf[r].pc = "idle" /\ rf'[r].pc # "idle") =>
                 (rf'[r].pc = "done" /\ rf'[r].result = "rejected")]_vars

\* A refresh of an UPLOAD library that holds an asset has been rejected.
C13_Witness ==
  /\ libType = UPLOAD
  /\ \E r \in Passes : rf[r].pc = "done" /\ rf[r].result = "rejected"
  /\ catalog = {UploadedAsset}

\* C14: an offline job for a path that has no Asset record fails, whatever its
\* emptyTrash, and leaves the catalog as it was.
C14_OfflineWithoutAssetFails ==
  [][\A w \in Workers :
       (/\ wk[w].pc = "idle" /\ wk'[w].pc # "idle"
        /\ wk'[w].job.name = OFFLINE_LIBRARY_FILE
        /\ AssetsAt(catalog, wk'[w].job.assetPath) = {})
       => /\ wk'[w].pc = "done"
          /\ wk'[w].result = "error"
          /\ wk'[w].writes = 0
          /\ catalog' = catalog
          /\ nextId' = nextId
          /\ downstream' = downstream]_vars

\* An offline job that is not to empty the trash has failed for want of an asset.
C14_Witness ==
  \E w \in Workers :
    /\ IsOffline(w)
    /\ ~wk[w].job.emptyTrash
    /\ wk[w].existingAssetEntity = Null
    /\ wk[w].pc = "done"
    /\ wk[w].result = "error"
    /\ catalog # {}

\* The pass has enqueued its last job, no other pass is in flight, and every job
\* has been run to its end.
Settled(r) ==
  /\ PassCompleted(r)
  /\ \A q \in Passes \ {r} : rf[q].pc = "idle"
  /\ queue = EmptyBag
  /\ \A w \in Workers : wk[w].pc \in {"idle", "done"}

\* C15: when a refresh pass over a filesystem that holds still, of a library whose
\* catalog held at most one asset for a path, has ended and each of its jobs has
\* been run, in any order and by either worker, every crawled
\* path has an Asset record that is not offline, and every asset at a path that
\* was not crawled is offline (emptyTrash = false: the record is still there) or
\* gone (emptyTrash = true).
C15_PassConverges ==
  \A r \in Passes :
    (Settled(r) /\ OnePerPath(quiet.before)) =>
      /\ \A p \in CrawledPaths(r) :
           \E a \in catalog : a.originalPath = p /\ ~a.isOffline
      /\ \A a \in catalog :
           a.originalPath \notin CrawledPaths(r) =>
             (~rf[r].dto.emptyTrash /\ a.isOffline)
      /\ \A b \in quiet.before :
           (b.originalPath \notin CrawledPaths(r) /\ ~rf[r].dto.emptyTrash) =>
             [b EXCEPT !.isOffline = TRUE] \in catalog

\* A pass has imported a new file and marked offline the asset of a missing one.
C15_Witness ==
  \E r \in Passes :
    /\ Settled(r)
    /\ OnePerPath(quiet.before)
    /\ \E p \in CrawledPaths(r) : AssetsAt(quiet.before, p) = {}
    /\ \E b \in quiet.before :
         /\ ~b.isOffline
         /\ b.originalPath \notin CrawledPaths(r)
         /\ [b EXCEPT !.isOffline = TRUE] \in catalog

\* C16: a step that takes an Asset record out of the catalog is the remove of an
\* offline job carrying emptyTrash; no step of a refresh pass and no step of an
\* ingest job does, whatever the flags of the job.
C16_OnlyEmptyTrashRemoves ==
  [][/\ (\E a \in catalog : ~HasId(catalog', a.id)) =>
         (\E w \in Workers :
            /\ wk[w].pc = "remove" /\ wk'[w].pc = "done"
            /\ wk[w].job.name = OFFLINE_LIBRARY_FILE
            /\ wk[w].job.emptyTrash)
     /\ \A v \in Workers :
          (/\ wk'[v] # wk[v]
           /\ wk'[v].job # Null /\ wk'[v].job.name = REFRESH_LIBRARY_FILE)
          => \A a \in catalog : HasId(catalog', a.id)
     /\ rf' # rf => \A a \in catalog : HasId(catalog', a.id)]_vars

\* An ingest job carrying emptyTrash found its file inaccessible and has marked
\* the asset offline: the record is still there.
C16_Witness ==
  \E w \in Workers :
    /\ IsIngest(w)
    /\ wk[w].job.emptyTrash
    /\ wk[w].pc = "done"
    /\ wk[w].stats = Null
    /\ wk[w].existingAssetEntity # Null
    /\ wk[w].writes = 1
    /\ \E a \in catalog : a.id = wk[w].existingAssetEntity.id /\ a.isOffline

\* C17: the library's import paths change only while no refresh pass is between
\* its read of the library and its last enqueue.
C17_NoMutationInFlight ==
  [][importPaths' # importPaths =>
       \A r \in Passes : rf[r].pc \in {"idle", "done"}]_vars

\* C18, as the spec states it: an ingest job makes at most one write to the
\* catalog, the update of the offline flag counted, and at most two enqueues.
C18_AtMostOneWrite ==
  \A w \in Workers : IsIngest(w) => (wk[w].writes <= 1 /\ Len(wk[w].enq) <= 2)

\* The writes an ingest job has made are at most these: one update of the
\* offline flag, made only for an existing asset whose file cannot be stat'ed or
\* which is offline while its file can, and one create.
WritesAllowed(w) ==
  (IF /\ wk[w].existingAssetEntity # Null
      /\ (wk[w].stats = Null \/ wk[w].existingAssetEntity.isOffline)
   THEN 1 ELSE 0)
  + (IF wk[w].addedAsset # Null THEN 1 ELSE 0)

\* C18, amended: an ingest job makes at most two writes to the catalog, at most
\* one update of the offline flag and at most one create, and at most two
\* enqueues.
C18_AtMostTwoWrites ==
  \A w \in Workers :
    IsIngest(w) =>
      /\ wk[w].writes <= WritesAllowed(w)
      /\ wk[w].writes <= 2
      /\ Len(wk[w].enq) <= 2

\* An ingest job has cleared the offline flag of its asset and created a record.
C18_Witness ==
  \E w \in Workers :
    /\ IsIngest(w)
    /\ wk[w].pc = "done"
    /\ wk[w].result = "true"
    /\ wk[w].writes = 2

\* C20: what an ingest job has enqueued, it has enqueued after its create: first
\* a METADATA_EXTRACTION job, then at most a VIDEO_CONVERSION job, both with the
\* id of the record this invocation created for its path; a job that has failed,
\* or has returned without creating a record, has enqueued nothing.
C20_FollowOnAfterCreate ==
  \A w \in Workers :
    IsIngest(w) =>
      /\ wk[w].enq # <<>> =>
           /\ wk[w].addedAsset # Null
           /\ wk[w].addedAsset.originalPath = wk[w].job.assetPath
           /\ wk[w].addedAsset.id < nextId
           /\ wk[w].pc \in {"queueVideo", "done"}
           /\ Len(wk[w].enq) <= 2
           /\ wk[w].enq[1] = [name |-> METADATA_EXTRACTION, id |-> wk[w].addedAsset.id]
           /\ Len(wk[w].enq) = 2 =>
                wk[w].enq[2] = [name |-> VIDEO_CONVERSION, id |-> wk[w].addedAsset.id]
           /\ Range(wk[w].enq) \subseteq downstream
      /\ wk[w].addedAsset = Null => wk[w].enq = <<>>
      /\ wk[w].result = "error" => wk[w].enq = <<>>

\* A video has been imported while the catalog held another record: both of the
\* job's follow-on jobs carry the new record's id.
C20_Witness ==
  \E w \in Workers :
    /\ IsIngest(w)
    /\ wk[w].pc = "done"
    /\ Len(wk[w].enq) = 2
    /\ wk[w].addedAsset.id = 2

\* C19: when two jobs for different paths, of either kind each, have run on two
\* workers, their lookups, writes and enqueues interleaved in any way, the
\* catalog holds the records that running the first and then the second can
\* leave, and those that running the second and then the first can leave; and
\* the two orders can leave the same catalogs.
C19_DifferentPathsCommute ==
  BothDone =>
    LET j1 == wk[1].job
        j2 == wk[2].job
    IN /\ j1.assetPath # j2.assetPath
       /\ \E s \in RunBoth(Before, j1, j2) : SameRecords(catalog, s.catalog)
       /\ \E s \in RunBoth(Before, j2, j1) : SameRecords(catalog, s.catalog)
       /\ \A s \in RunBoth(Before, j1, j2) :
            \E t \in RunBoth(Before, j2, j1) : SameRecords(s.catalog, t.catalog)
       /\ \A s \in RunBoth(Before, j2, j1) :
            \E t \in RunBoth(Before, j1, j2) : SameRecords(s.catalog, t.catalog)

\* An ingest job has created a record and an offline job for another path, whose
\* asset is older than that record, has made its write.
C19_Witness ==
  /\ BothDone
  /\ \E v, w \in Workers :
       /\ IsIngest(v) /\ wk[v].addedAsset # Null
       /\ IsOffline(w) /\ wk[w].writes = 1
       /\ wk[w].existingAssetEntity.id < wk[v].addedAsset.id
       /\ catalog # quiet.before

====
